---- MODULE Spec2Model ----
(***************************************************************************)
(* Cinema booking back end: rooms, movies, movie sessions and seat         *)
(* reservations, each a table written by the route handlers of             *)
(* cinema_application/routers through the SQLAlchemy models of             *)
(* cinema_application/models.py.                                           *)
(*                                                                         *)
(* A column value is NULL (the empty set) or {v}.  A table is a function   *)
(* from the ids of its rows to records of column values.  A request body   *)
(* of an update is a function from the fields that were set (pydantic's    *)
(* exclude_unset) to column values, NULL standing for an explicit null.    *)
(*                                                                         *)
(* FastAPI validates a request into its pydantic model, calls the handler  *)
(* and sends what it returns or raises: receive puts the validated request *)
(* in the worker's slot, one action per handler runs the handler's body on *)
(* it and leaves the response in the slot, and respond frees the slot.     *)
(***************************************************************************)
EXTENDS Integers, Sequences, FiniteSets, TLC

\* ------------------------------------------------------------------ bounds
MaxRooms == 2
MaxMovies == 1
MaxSessions == 1
MaxReservations == 2
MaxSeats == 2
MaxTime == 1
MaxListed == 2
NumWorkers == 2

VARIABLES
    rooms,            \* table "rooms":          id -> [name, seats]
    movies,           \* table "movies":         id -> [name, duration, poster]
    movie_sessions,   \* table "movie_sessions": id -> [start_time, end_time, movie_id, room_id]
    reservations,     \* table "reservations":   id -> [seat, contact, session_id]
    now,              \* datetime.now()
    dialect,          \* the engine the session factory is bound to
    requests          \* per worker, the request it serves and the response to it

store == <<rooms, movies, movie_sessions, reservations>>
vars == <<rooms, movies, movie_sessions, reservations, now, dialect, requests>>

\* ------------------------------------------------------------ column values
NULL == {}
Val(x) == CHOOSE v \in x : TRUE
Nullable(S) == {NULL} \cup {{v} : v \in S}
Restrict(r, F) == [f \in F |-> r[f]]

Max(S) == CHOOSE m \in S : \A x \in S : x <= m

\* ------------------------------------------------------------ input domains
RoomNames == {"Red", "Blue"}
MovieNames == {"Dune 2", "Heat"}
Durations == {180}
Posters == {"png"}
RoomFields == {"name", "seats"}
MovieFields == {"name", "duration", "poster"}
SessionFields == {"start_time", "end_time", "movie_id", "room_id"}
ReservationFields == {"seat", "contact", "session_id"}
Times == 1..MaxTime
SeatCounts == 1..MaxSeats
\* RoomUpdate.seats is declared Optional[str]: the numerals a client can send
SeatNumerals == {ToString(n) : n \in 0..MaxSeats}
Workers == 1..NumWorkers
Dialects == {"sqlite", "postgresql"}

\* ------------------------------------------------------------------- store
EmptyTable == <<>>

\* The primary key the engine gives a new row.
NextId(table) == IF DOMAIN table = {} THEN 1 ELSE Max(DOMAIN table) + 1

Insert(table, row) ==
    [i \in DOMAIN table \cup {NextId(table)} |->
        IF i \in DOMAIN table THEN table[i] ELSE row]

Remove(table, id) == [i \in DOMAIN table \ {id} |-> table[i]]

Replace(table, id, row) == [i \in DOMAIN table |-> IF i = id THEN row ELSE table[i]]

\* query(Model).filter(Model.id == id).first() is not None
Exists(table, id) == \E i \in DOMAIN table : {i} = id

\* Model(**kwargs): the columns left out are NULL.
NewRow(fields, kwargs) ==
    [f \in fields |-> IF f \in DOMAIN kwargs THEN kwargs[f] ELSE NULL]

\* Mutant: the fields the request leaves out are written as null.
update_replacing(row, kwargs) ==
    [f \in DOMAIN row |-> IF f \in DOMAIN kwargs /\ kwargs[f] # NULL THEN kwargs[f] ELSE NULL]

\* Model.update(**kwargs): set every field whose value is not None.
update(row, kwargs) ==
    [f \in DOMAIN row |->
        IF f \in DOMAIN kwargs /\ kwargs[f] # NULL THEN kwargs[f] ELSE row[f]]

\* Column(String, unique=True): no two rows share a non-null name.
UniqueNames(table) ==
    \A i, j \in DOMAIN table :
        (i # j /\ table[i].name # NULL) => table[i].name # table[j].name

\* UniqueConstraint("session_id", "seat"): no two rows share a pair without nulls.
unique_session_seat(table) ==
    \A i, j \in DOMAIN table :
        (i # j /\ table[i].session_id # NULL /\ table[i].seat # NULL)
            => ~(table[i].session_id = table[j].session_id /\ table[i].seat = table[j].seat)

\* ForeignKey("movie_sessions.id"), as far as the engine enforces it.
ForeignKeysHold(res, sess) ==
    dialect = "sqlite"
    \/ \A i \in DOMAIN res : res[i].session_id = NULL \/ Exists(sess, res[i].session_id)

\* An Integer column stores the number a numeral denotes.
ParseInt(s) == CHOOSE n \in 0..(MaxSeats + 1) : ToString(n) = s

\* A str bound to a DateTime column: SQLite's DateTime type accepts only
\* datetime objects, the other engine parses the string itself.
TimeStringAccepted == dialect # "sqlite"

\* relationship() without cascade: deleting the parent sets the foreign key
\* of each of its children to NULL.
Orphan(children, fk, id) ==
    [i \in DOMAIN children |->
        IF children[i][fk] = {id} THEN [children[i] EXCEPT ![fk] = NULL] ELSE children[i]]

\* ---------------------------------------------------------------- requests
Idle == [pc |-> "idle", op |-> "none", token |-> "valid", id |-> NULL, body |-> <<>>,
         status |-> "none", result |-> <<>>]

\* A validated request: the route, its path parameter and its body, sent with
\* the bearer token of an admin.
Request(op, id, body) ==
    [pc |-> "received", op |-> op, token |-> "valid", id |-> id, body |-> body,
     status |-> "none", result |-> <<>>]

\* The same requests sent with other bearer tokens, or with none.
WithToken(sent, tokens) == {[request EXCEPT !.token = t] : request \in sent, t \in tokens}

Tokens == {"valid", "invalid", "none"}

\* Depends(get_current_user): the principal of a valid token; any other token,
\* and a request without one, raises AuthenticationFailed.
get_current_user(token) == token = "valid"

\* Mutant: create_reservation declared without the admin dependency.
ProtectedButBooking(op) ==
    op \in {"all_sessions",
            "create_room", "update_room", "delete_room",
            "create_movie", "update_movie", "delete_movie",
            "create_session", "update_session", "delete_session",
            "update_reservation", "delete_reservation"}

\* The routes declared with `admin: UserDependency`.
Protected(op) ==
    op \in {"all_sessions",
            "create_room", "update_room", "delete_room",
            "create_movie", "update_movie", "delete_movie",
            "create_session", "update_session", "delete_session",
            "create_reservation", "update_reservation", "delete_reservation"}

Running(w, op) == requests[w].pc = "received" /\ requests[w].op = op

\* The handler returns, or raises the exception `status` names.
Answer(w, status) ==
    requests' = [requests EXCEPT ![w].pc = "answered", ![w].status = status]

\* A create is taken while its table has room under the bound of the model.
Admitted(request) ==
    /\ request.op = "create_room" => NextId(rooms) <= MaxRooms
    /\ request.op = "create_movie" => NextId(movies) <= MaxMovies
    /\ request.op = "create_session" => NextId(movie_sessions) <= MaxSessions
    /\ request.op = "create_reservation" => NextId(reservations) <= MaxReservations

\* The dependencies of the route are resolved before its handler is called.
receive(w, request) ==
    /\ requests[w].pc = "idle"
    /\ Admitted(request)
    /\ IF Protected(request.op) /\ ~get_current_user(request.token)
       THEN requests' = [requests EXCEPT
                            ![w] = [request EXCEPT !.pc = "answered",
                                                   !.status = "AuthenticationFailed"]]
       ELSE requests' = [requests EXCEPT ![w] = request]
    /\ UNCHANGED <<rooms, movies, movie_sessions, reservations, now, dialect>>

\* The response is sent and the worker is free again.
respond(w) ==
    /\ requests[w].pc = "answered"
    /\ requests' = [requests EXCEPT ![w] = Idle]
    /\ UNCHANGED <<rooms, movies, movie_sessions, reservations, now, dialect>>

\* ------------------------------------------------------------------- rooms
create_room(w) ==
    LET added == Insert(rooms, requests[w].body) IN
    /\ Running(w, "create_room")
    /\ IF UniqueNames(added)
       THEN rooms' = added /\ Answer(w, "Created")
       ELSE rooms' = rooms /\ Answer(w, "InternalError")
    /\ UNCHANGED <<movies, movie_sessions, reservations, now, dialect>>

\* The bodies RoomUpdate admits that set fields among `fields`.
RoomPatches(names, numerals, fields) ==
    {Restrict([name |-> n, seats |-> s], F) :
        n \in Nullable(names), s \in Nullable(numerals), F \in SUBSET fields}

\* The row as the table stores it: seats, set from a str, as an integer.
StoredRoom(row, patch) ==
    [row EXCEPT !.seats = IF "seats" \in DOMAIN patch /\ patch.seats # NULL
                          THEN {ParseInt(Val(patch.seats))} ELSE @]

update_room(w) ==
    LET room_id == requests[w].id
        patch == requests[w].body
    IN
    /\ Running(w, "update_room")
    /\ IF ~Exists(rooms, room_id)
       THEN rooms' = rooms /\ Answer(w, "NotFound")
       ELSE LET changed == Replace(rooms, Val(room_id),
                                   StoredRoom(update(rooms[Val(room_id)], patch), patch))
            IN IF UniqueNames(changed)
               THEN rooms' = changed /\ Answer(w, "NoContent")
               ELSE rooms' = rooms /\ Answer(w, "InternalError")
    /\ UNCHANGED <<movies, movie_sessions, reservations, now, dialect>>

delete_room(w) ==
    LET room_id == requests[w].id IN
    /\ Running(w, "delete_room")
    /\ IF ~Exists(rooms, room_id)
       THEN /\ Answer(w, "NotFound")
            /\ UNCHANGED <<rooms, movie_sessions>>
       ELSE /\ rooms' = Remove(rooms, Val(room_id))
            /\ movie_sessions' = Orphan(movie_sessions, "room_id", Val(room_id))
            /\ Answer(w, "NoContent")
    /\ UNCHANGED <<movies, reservations, now, dialect>>

\* ------------------------------------------------------------------ movies
\* Movie(**movie_request.model_dump(exclude_unset=True))
create_movie(w) ==
    LET added == Insert(movies, NewRow(MovieFields, requests[w].body)) IN
    /\ Running(w, "create_movie")
    /\ IF UniqueNames(added)
       THEN movies' = added /\ Answer(w, "Created")
       ELSE movies' = movies /\ Answer(w, "InternalError")
    /\ UNCHANGED <<rooms, movie_sessions, reservations, now, dialect>>

\* The bodies MovieUpdate admits that set fields among `fields`.
MoviePatches(names, durations, posters, fields) ==
    {Restrict([name |-> n, duration |-> d, poster |-> p], F) :
        n \in Nullable(names), d \in Nullable(durations), p \in Nullable(posters),
        F \in SUBSET fields}

update_movie(w) ==
    LET movie_id == requests[w].id
        patch == requests[w].body
    IN
    /\ Running(w, "update_movie")
    /\ IF ~Exists(movies, movie_id)
       THEN movies' = movies /\ Answer(w, "NotFound")
       ELSE LET changed == Replace(movies, Val(movie_id), update(movies[Val(movie_id)], patch))
            IN IF UniqueNames(changed)
               THEN movies' = changed /\ Answer(w, "NoContent")
               ELSE movies' = movies /\ Answer(w, "InternalError")
    /\ UNCHANGED <<rooms, movie_sessions, reservations, now, dialect>>

delete_movie(w) ==
    LET movie_id == requests[w].id IN
    /\ Running(w, "delete_movie")
    /\ IF ~Exists(movies, movie_id)
       THEN /\ Answer(w, "NotFound")
            /\ UNCHANGED <<movies, movie_sessions>>
       ELSE /\ movies' = Remove(movies, Val(movie_id))
            /\ movie_sessions' = Orphan(movie_sessions, "movie_id", Val(movie_id))
            /\ Answer(w, "NoContent")
    /\ UNCHANGED <<rooms, reservations, now, dialect>>

\* ---------------------------------------------------------- movie sessions
\* Mutant: one of the two lookups is enough.
EitherParentExists(body) ==
    Exists(movies, body.movie_id) \/ Exists(rooms, body.room_id)

\* The lookups of create_session: a Movie and a Room with the ids of the body.
SessionParentsExist(body) ==
    Exists(movies, body.movie_id) /\ Exists(rooms, body.room_id)

create_session(w) ==
    /\ Running(w, "create_session")
    /\ IF ~SessionParentsExist(requests[w].body)
       THEN movie_sessions' = movie_sessions /\ Answer(w, "MovieOrRoomNotFound")
       ELSE /\ movie_sessions' = Insert(movie_sessions, requests[w].body)
            /\ Answer(w, "Created")
    /\ UNCHANGED <<rooms, movies, reservations, now, dialect>>

\* The bodies MovieSessionUpdate admits that set fields among `fields`.
SessionPatches(times, movie_ids, room_ids, fields) ==
    {Restrict([start_time |-> s, end_time |-> e, movie_id |-> m, room_id |-> r], F) :
        s \in Nullable(times), e \in Nullable(times),
        m \in Nullable(movie_ids), r \in Nullable(room_ids), F \in SUBSET fields}

\* Mutant: the room's lookup is left out.
OnlyMovieLookedUp(patch) ==
    "movie_id" \in DOMAIN patch => Exists(movies, patch.movie_id)

\* The lookups of update_session: made for the ids the request sets.
PatchParentsExist(patch) ==
    /\ "movie_id" \in DOMAIN patch => Exists(movies, patch.movie_id)
    /\ "room_id" \in DOMAIN patch => Exists(rooms, patch.room_id)

\* MovieSessionUpdate declares start_time and end_time Optional[str].
SetsTimeString(patch) ==
    \E f \in {"start_time", "end_time"} : f \in DOMAIN patch /\ patch[f] # NULL

update_session(w) ==
    LET session_id == requests[w].id
        patch == requests[w].body
    IN
    /\ Running(w, "update_session")
    /\ IF ~Exists(movie_sessions, session_id)
       THEN movie_sessions' = movie_sessions /\ Answer(w, "NotFound")
       ELSE IF ~PatchParentsExist(patch)
       THEN movie_sessions' = movie_sessions /\ Answer(w, "MovieOrRoomNotFound")
       ELSE IF SetsTimeString(patch) /\ ~TimeStringAccepted
       THEN movie_sessions' = movie_sessions /\ Answer(w, "InternalError")
       ELSE /\ movie_sessions' =
                   Replace(movie_sessions, Val(session_id),
                           update(movie_sessions[Val(session_id)], patch))
            /\ Answer(w, "NoContent")
    /\ UNCHANGED <<rooms, movies, reservations, now, dialect>>

delete_session(w) ==
    LET session_id == requests[w].id IN
    /\ Running(w, "delete_session")
    /\ IF ~Exists(movie_sessions, session_id)
       THEN /\ Answer(w, "NotFound")
            /\ UNCHANGED <<movie_sessions, reservations>>
       ELSE /\ movie_sessions' = Remove(movie_sessions, Val(session_id))
            /\ reservations' = Orphan(reservations, "session_id", Val(session_id))
            /\ Answer(w, "NoContent")
    /\ UNCHANGED <<rooms, movies, now, dialect>>

\* Mutant: range(1, seats).
AvailableSeatsShort(seats, reserved) ==
    SelectSeq([i \in 1..(seats - 1) |-> i],
              LAMBDA seat : \A k \in 1..Len(reserved) : reserved[k] # seat)

\* range(1, seats + 1) without the reserved seats, in ascending order
AvailableSeats(seats, reserved) ==
    SelectSeq([i \in 1..seats |-> i], LAMBDA seat : \A k \in 1..Len(reserved) : reserved[k] # seat)

\* [reservation.seat for reservation in rows], in primary key order
RECURSIVE SeatsOf(_, _)
SeatsOf(table, ids) ==
    IF ids = {} THEN <<>>
    ELSE LET i == Max(ids) IN Append(SeatsOf(table, ids \ {i}), Val(table[i].seat))

\* MovieSession.reservations: the rows whose session_id is the session's id
ReservationsOf(session_id) ==
    {i \in DOMAIN reservations : reservations[i].session_id = session_id}

get_session_by_id(w) ==
    LET session_id == requests[w].id
        reserved_seats == SeatsOf(reservations, ReservationsOf(session_id))
    IN
    /\ Running(w, "get_session_by_id")
    /\ IF ~Exists(movie_sessions, session_id)
       THEN Answer(w, "NotFound")
       ELSE IF ~Exists(rooms, movie_sessions[Val(session_id)].room_id)
       THEN Answer(w, "InternalError")
       ELSE requests' =
               [requests EXCEPT
                   ![w].pc = "answered",
                   ![w].status = "OK",
                   ![w].result =
                       [reserved_seats |-> reserved_seats,
                        available_seats |->
                            AvailableSeats(
                                Val(rooms[Val(movie_sessions[Val(session_id)].room_id)].seats),
                                reserved_seats)]]
    /\ UNCHANGED <<rooms, movies, movie_sessions, reservations, now, dialect>>

\* ------------------------------------------------------------ reservations
\* Mutant: the session is not looked up.
create_reservation_unchecked(w) ==
    /\ Running(w, "create_reservation")
    /\ requests' = [requests EXCEPT ![w].pc = "checked"]
    /\ UNCHANGED <<rooms, movies, movie_sessions, reservations, now, dialect>>

\* create_reservation up to its lookup of the session.
create_reservation_check(w) ==
    /\ Running(w, "create_reservation")
    /\ IF Exists(movie_sessions, requests[w].body.session_id)
       THEN requests' = [requests EXCEPT ![w].pc = "checked"]
       ELSE Answer(w, "MovieSessionNotFound")
    /\ UNCHANGED <<rooms, movies, movie_sessions, reservations, now, dialect>>

\* Mutant: the table is created without unique_session_seat.
CommitWithoutUnique(changed) == ForeignKeysHold(changed, movie_sessions)

\* Whether the engine takes the commit of the reservations table as changed.
CommitAccepted(changed) ==
    unique_session_seat(changed) /\ ForeignKeysHold(changed, movie_sessions)

\* create_reservation from database.add to the end of database.commit.
create_reservation_commit(w) ==
    LET added == Insert(reservations, requests[w].body) IN
    /\ requests[w].pc = "checked"
    /\ IF CommitAccepted(added)
       THEN reservations' = added /\ Answer(w, "Created")
       ELSE reservations' = reservations /\ Answer(w, "InternalError")
    /\ UNCHANGED <<rooms, movies, movie_sessions, now, dialect>>

\* The bodies ReservationUpdate admits that set fields among `fields`.
ReservationPatches(seats, session_ids, contacts, fields) ==
    {Restrict([seat |-> s, session_id |-> m, contact |-> c], F) :
        s \in Nullable(seats), m \in Nullable(session_ids), c \in Nullable(contacts),
        F \in SUBSET fields}

update_reservation(w) ==
    LET reservation_id == requests[w].id
        patch == requests[w].body
    IN
    /\ Running(w, "update_reservation")
    /\ IF ~Exists(reservations, reservation_id)
       THEN reservations' = reservations /\ Answer(w, "NotFound")
       ELSE IF ~Exists(movie_sessions, reservations[Val(reservation_id)].session_id)
       THEN reservations' = reservations /\ Answer(w, "MovieSessionNotFound")
       ELSE LET changed == Replace(reservations, Val(reservation_id),
                                   update(reservations[Val(reservation_id)], patch))
            IN IF CommitAccepted(changed)
               THEN reservations' = changed /\ Answer(w, "NoContent")
               ELSE reservations' = reservations /\ Answer(w, "InternalError")
    /\ UNCHANGED <<rooms, movies, movie_sessions, now, dialect>>

\* Mutant: a delete of a missing row is taken as done.
delete_reservation_unchecked(w) ==
    /\ Running(w, "delete_reservation")
    /\ reservations' = Remove(reservations, Val(requests[w].id))
    /\ Answer(w, "NoContent")
    /\ UNCHANGED <<rooms, movies, movie_sessions, now, dialect>>

delete_reservation(w) ==
    LET reservation_id == requests[w].id IN
    /\ Running(w, "delete_reservation")
    /\ IF ~Exists(reservations, reservation_id)
       THEN reservations' = reservations /\ Answer(w, "NotFound")
       ELSE reservations' = Remove(reservations, Val(reservation_id)) /\ Answer(w, "NoContent")
    /\ UNCHANGED <<rooms, movies, movie_sessions, now, dialect>>

\* ---------------------------------------------------------- specifications
RoomIds == 1..(MaxRooms + 1)
MovieIds == 1..(MaxMovies + 1)
SessionIds == 1..(MaxSessions + 1)

Requests(op, ids, bodies) == {Request(op, {i}, b) : i \in ids, b \in bodies}
Creates(op, bodies) == {Request(op, NULL, b) : b \in bodies}

\* The catalogue of rooms, movies and sessions, from an empty database.
Init ==
    /\ rooms = EmptyTable
    /\ movies = EmptyTable
    /\ movie_sessions = EmptyTable
    /\ reservations = EmptyTable
    /\ now = 0
    /\ dialect \in Dialects
    /\ requests = [w \in Workers |-> Idle]

CatalogRequests ==
    Creates("create_room", {[name |-> {n}, seats |-> {MaxSeats}] : n \in RoomNames})
    \cup Requests("update_room", RoomIds, RoomPatches(RoomNames, {}, {"name"}))
    \cup Requests("delete_room", RoomIds, {<<>>})
    \cup Creates("create_movie", {[name |-> {n}] : n \in MovieNames})
    \cup Requests("update_movie", MovieIds, MoviePatches(MovieNames, {}, {}, {"name"}))
    \cup Requests("delete_movie", MovieIds, {<<>>})
    \cup Creates("create_session",
                 {[start_time |-> {MaxTime}, end_time |-> {MaxTime}, movie_id |-> {m}, room_id |-> {r}] :
                     m \in MovieIds, r \in RoomIds})
    \cup Requests("update_session", SessionIds,
                  SessionPatches({}, MovieIds, RoomIds, {"movie_id", "room_id"}))
    \cup Requests("delete_session", SessionIds, {<<>>})
    \cup Requests("get_session_by_id", SessionIds, {<<>>})

Next ==
    \/ \E request \in CatalogRequests : receive(1, request)
    \/ create_room(1)
    \/ update_room(1)
    \/ delete_room(1)
    \/ create_movie(1)
    \/ update_movie(1)
    \/ delete_movie(1)
    \/ create_session(1)
    \/ update_session(1)
    \/ delete_session(1)
    \/ get_session_by_id(1)
    \/ respond(1)

Spec == Init /\ [][Next]_vars

\* The database the route tests build: the room "Red", the movie "Dune 2",
\* k sessions of the movie in the room, and reservations of seats 1..n of
\* session 1.
Fixture(k, n) ==
    /\ rooms = <<[name |-> {"Red"}, seats |-> {MaxSeats}]>>
    /\ movies = <<[name |-> {"Dune 2"}, duration |-> {180}, poster |-> NULL]>>
    /\ movie_sessions = [i \in 1..k |->
                            [start_time |-> {MaxTime}, end_time |-> {MaxTime},
                             movie_id |-> {1}, room_id |-> {1}]]
    /\ reservations = [i \in 1..n |->
                          [seat |-> {i}, contact |-> {"example@gmail.com"}, session_id |-> {1}]]
    /\ now = 0
    /\ dialect \in Dialects
    /\ requests = [w \in Workers |-> Idle]

\* Partial updates of the four kinds of entity.
InitUpdate == Fixture(1, 2)

UpdateRequests ==
    Requests("update_room", {1}, RoomPatches({"Blue"}, {"0"}, RoomFields))
    \cup Requests("update_movie", {1}, MoviePatches({"Heat"}, {}, Posters, MovieFields))
    \cup Requests("update_session", {1}, SessionPatches({MaxTime}, 1..2, 1..2, SessionFields))
    \cup Requests("update_reservation", 1..2,
                  ReservationPatches({MaxSeats}, 1..2, {"other@gmail.com"}, ReservationFields))
    \cup Requests("update_room", {2}, {<<>>})
    \cup Requests("update_movie", {2}, {<<>>})
    \cup Requests("update_session", {2}, {<<>>})
    \cup Requests("update_reservation", {3}, {<<>>})

NextUpdate ==
    \/ \E request \in UpdateRequests : receive(1, request)
    \/ update_room(1)
    \/ update_movie(1)
    \/ update_session(1)
    \/ update_reservation(1)
    \/ respond(1)

SpecUpdate == InitUpdate /\ [][NextUpdate]_vars

\* Deletes of the four kinds of entity, and the reads of a session.
InitDelete == Fixture(1, 2)

DeleteRequests ==
    Requests("delete_room", 1..2, {<<>>})
    \cup Requests("delete_movie", 1..2, {<<>>})
    \cup Requests("delete_session", 1..2, {<<>>})
    \cup Requests("delete_reservation", 1..3, {<<>>})
    \cup Requests("get_session_by_id", 1..2, {<<>>})

NextDelete ==
    \/ \E request \in DeleteRequests : receive(1, request)
    \/ delete_room(1)
    \/ delete_movie(1)
    \/ delete_session(1)
    \/ delete_reservation(1)
    \/ get_session_by_id(1)
    \/ respond(1)

SpecDelete == InitDelete /\ [][NextDelete]_vars

\* Reservations of the seats of two sessions, one request at a time.
InitBooking == Fixture(2, 0)

ReservationBodies(seats, session_ids) ==
    {[seat |-> {s}, contact |-> {"example@gmail.com"}, session_id |-> {m}] :
        s \in seats, m \in session_ids}

BookingRequests ==
    Creates("create_reservation", ReservationBodies(SeatCounts, 1..3))
    \cup Requests("update_reservation", 1..MaxReservations,
                  ReservationPatches(SeatCounts, 1..3, {}, {"seat", "session_id"}))
    \cup Requests("update_reservation", {MaxReservations + 1}, {<<>>})
    \cup Requests("delete_reservation", 1..(MaxReservations + 1), {<<>>})
    \cup Requests("get_session_by_id", 1..3, {<<>>})

NextBooking ==
    \/ \E request \in BookingRequests : receive(1, request)
    \/ create_reservation_check(1)
    \/ create_reservation_commit(1)
    \/ update_reservation(1)
    \/ delete_reservation(1)
    \/ get_session_by_id(1)
    \/ respond(1)

SpecBooking == InitBooking /\ [][NextBooking]_vars

\* Every worker serves one create_reservation, the workers interleaving at
\* the session's lookup and at the commit.
InitRace == Fixture(1, 0)

RaceRequests == Creates("create_reservation", ReservationBodies(SeatCounts, 1..2))

NextRace ==
    \E w \in Workers :
        \/ \E request \in RaceRequests : receive(w, request)
        \/ create_reservation_check(w)
        \/ create_reservation_commit(w)

SpecRace == InitRace /\ [][NextRace]_vars

\* ------------------------------------------------------------------- reads
\* The ids of S in ascending order, the order the rows were inserted in.
RECURSIVE Ascending(_)
Ascending(S) ==
    IF S = {} THEN <<>> ELSE LET i == Max(S) IN Append(Ascending(S \ {i}), i)

\* The handler returns `result`.
Return(w, result) ==
    requests' = [requests EXCEPT ![w].pc = "answered", ![w].status = "OK",
                                 ![w].result = result]

\* The truth value Python gives an Optional[int]: None and 0 are false.
Truthy(x) == x # NULL /\ x # {0}

\* MovieSession.start_time > datetime.now()
Upcoming(session) == session.start_time # NULL /\ Val(session.start_time) > now

\* The query parameters movie_id: int = None and room_id: int = None.
FilterParameters(ids) == [movie_id : Nullable(ids), room_id : Nullable(ids)]

sessions_filtered_by(w) ==
    LET movie_id == requests[w].body.movie_id
        room_id == requests[w].body.room_id
        of_movie == {i \in DOMAIN movie_sessions : movie_sessions[i].movie_id = movie_id}
        of_room == {i \in DOMAIN movie_sessions : movie_sessions[i].room_id = room_id}
    IN
    /\ Running(w, "sessions_filtered_by")
    /\ IF ~Truthy(movie_id) /\ ~Truthy(room_id)
       THEN Answer(w, "WrongParameters")
       ELSE IF Truthy(movie_id) /\ Truthy(room_id)
       THEN Return(w, Ascending({i \in of_movie \cap of_room : Upcoming(movie_sessions[i])}))
       ELSE IF Truthy(movie_id)
       THEN Return(w, Ascending(of_movie))
       ELSE Return(w, Ascending(of_room))
    /\ UNCHANGED <<rooms, movies, movie_sessions, reservations, now, dialect>>

all_sessions(w) ==
    /\ Running(w, "all_sessions")
    /\ Return(w, Ascending(DOMAIN movie_sessions))
    /\ UNCHANGED <<rooms, movies, movie_sessions, reservations, now, dialect>>

\* The rows of query(Parent).join(MovieSession, MovieSession.fk == Parent.id)
\* that pass the filter, as the parent's id of each: one row for each pair of
\* a parent and a session of it among `joined`.
RECURSIVE Join(_, _, _)
Join(parents, fk, joined) ==
    IF joined = {} THEN <<>>
    ELSE LET s == Max(joined)
             rest == Join(parents, fk, joined \ {s})
         IN IF Exists(parents, movie_sessions[s][fk])
            THEN Append(rest, Val(movie_sessions[s][fk])) ELSE rest

\* .distinct(Parent.id), and the Query's own merge of the rows of one entity:
\* every id once, at the place of its first row.
RECURSIVE Distinct(_)
Distinct(ids) ==
    IF ids = <<>> THEN <<>>
    ELSE LET front == Distinct(SubSeq(ids, 1, Len(ids) - 1))
             last == ids[Len(ids)]
         IN IF \E k \in 1..Len(front) : front[k] = last THEN front ELSE Append(front, last)

rooms_with_sessions(w) ==
    /\ Running(w, "rooms_with_sessions")
    /\ Return(w, Distinct(Join(rooms, "room_id",
                               {s \in DOMAIN movie_sessions : Upcoming(movie_sessions[s])})))
    /\ UNCHANGED <<rooms, movies, movie_sessions, reservations, now, dialect>>

movies_with_sessions(w) ==
    /\ Running(w, "movies_with_sessions")
    /\ Return(w, Distinct(Join(movies, "movie_id", DOMAIN movie_sessions)))
    /\ UNCHANGED <<rooms, movies, movie_sessions, reservations, now, dialect>>

\* The wall clock that datetime.now() reads moves on.
Tick ==
    /\ now < MaxTime
    /\ now' = now + 1
    /\ UNCHANGED <<rooms, movies, movie_sessions, reservations, dialect, requests>>

\* The listings of sessions, rooms and movies over a database of two rooms,
\* two movies and up to MaxListed sessions of them, while time passes.
SessionRows ==
    [start_time : {{t} : t \in Times}, end_time : {{MaxTime}},
     movie_id : {{1}, {2}}, room_id : {{1}, {2}}]

InitFilter ==
    /\ rooms = <<[name |-> {"Red"}, seats |-> {MaxSeats}], [name |-> {"Blue"}, seats |-> {MaxSeats}]>>
    /\ movies = <<[name |-> {"Dune 2"}, duration |-> {180}, poster |-> NULL],
                  [name |-> {"Heat"}, duration |-> NULL, poster |-> NULL]>>
    /\ \E k \in 0..MaxListed : movie_sessions \in [1..k -> SessionRows]
    /\ reservations = EmptyTable
    /\ now = 0
    /\ dialect \in Dialects
    /\ requests = [w \in Workers |-> Idle]

FilterRequests ==
    Creates("sessions_filtered_by", FilterParameters(0..2))
    \cup WithToken(Creates("all_sessions", {<<>>}), {"valid", "none"})
    \cup Creates("rooms_with_sessions", {<<>>})
    \cup Creates("movies_with_sessions", {<<>>})

NextFilter ==
    \/ \E request \in FilterRequests : receive(1, request)
    \/ sessions_filtered_by(1)
    \/ all_sessions(1)
    \/ rooms_with_sessions(1)
    \/ movies_with_sessions(1)
    \/ respond(1)
    \/ Tick

SpecFilter == InitFilter /\ [][NextFilter]_vars

\* Every route that writes, called with and without the token of an admin.
InitAuth == Fixture(1, 1)

AuthRequests ==
    WithToken(
        Creates("create_room", {[name |-> {"Blue"}, seats |-> {MaxSeats}]})
        \cup Requests("update_room", {1}, {[name |-> {"Blue"}]})
        \cup Requests("delete_room", {1}, {<<>>})
        \cup Creates("create_movie", {[name |-> {"Heat"}]})
        \cup Requests("update_movie", {1}, {[name |-> {"Heat"}]})
        \cup Requests("delete_movie", {1}, {<<>>})
        \cup Creates("create_session",
                     {[start_time |-> {MaxTime}, end_time |-> {MaxTime},
                       movie_id |-> {1}, room_id |-> {1}]})
        \cup Requests("update_session", {1}, {[room_id |-> {1}]})
        \cup Requests("delete_session", {1}, {<<>>})
        \cup Creates("create_reservation", ReservationBodies({MaxSeats}, {1}))
        \cup Requests("update_reservation", {1}, {[contact |-> {"other@gmail.com"}]})
        \cup Requests("delete_reservation", {1}, {<<>>}),
        Tokens)

NextAuth ==
    \/ \E request \in AuthRequests : receive(1, request)
    \/ create_room(1)
    \/ update_room(1)
    \/ delete_room(1)
    \/ create_movie(1)
    \/ update_movie(1)
    \/ delete_movie(1)
    \/ create_session(1)
    \/ update_session(1)
    \/ delete_session(1)
    \/ create_reservation_check(1)
    \/ create_reservation_commit(1)
    \/ update_reservation(1)
    \/ delete_reservation(1)
    \/ respond(1)

SpecAuth == InitAuth /\ [][NextAuth]_vars

\* ------------------------------------------------------------------ claims
Handled(w, op) == Running(w, op) /\ requests'[w].pc = "answered"

Answered(w, op) == requests[w].pc = "answered" /\ requests[w].op = op

Range(seq) == {seq[k] : k \in DOMAIN seq}

\* C1: two create_reservation calls for the same (session_id, seat) of a stored
\* session, run one after the other or interleaved, end with one of them
\* Created and the other refused with SeatTaken, and with exactly one
\* reservation stored for the pair.
C1_OneCreatedOneSeatTaken ==
    \A v, w \in Workers :
        (/\ v # w
         /\ Answered(v, "create_reservation") /\ Answered(w, "create_reservation")
         /\ requests[v].body.session_id = requests[w].body.session_id
         /\ requests[v].body.seat = requests[w].body.seat
         /\ Val(requests[v].body.session_id) \in DOMAIN movie_sessions)
        => /\ {requests[v].status, requests[w].status} = {"Created", "SeatTaken"}
           /\ Cardinality({i \in DOMAIN reservations :
                              /\ reservations[i].session_id = requests[v].body.session_id
                              /\ reservations[i].seat = requests[v].body.seat}) = 1

\* C2: get_session_by_id of a stored session in a room of N seats whose
\* reservations hold seats within 1..N answers with reserved_seats holding
\* exactly those seats, once each, and available_seats holding the rest of
\* 1..N in ascending order.
C2_SeatsOfASession ==
    \A w \in Workers :
        (/\ Answered(w, "get_session_by_id")
         /\ Val(requests[w].id) \in DOMAIN movie_sessions
         /\ \E r \in DOMAIN rooms : movie_sessions[Val(requests[w].id)].room_id = {r})
        => LET session == movie_sessions[Val(requests[w].id)]
               N == Val(rooms[Val(session.room_id)].seats)
               held == {Val(reservations[i].seat) :
                           i \in {j \in DOMAIN reservations :
                                     reservations[j].session_id = requests[w].id}}
               reserved == requests[w].result.reserved_seats
               available == requests[w].result.available_seats
           IN held \subseteq 1..N
              => /\ requests[w].status = "OK"
                 /\ Range(reserved) = held
                 /\ Len(reserved) = Cardinality(held)
                 /\ Range(available) = (1..N) \ held
                 /\ \A k \in 1..(Len(available) - 1) : available[k] < available[k + 1]

\* A session with a reserved seat and a free seat was read.
C2_Witness ==
    \E w \in Workers :
        /\ Answered(w, "get_session_by_id")
        /\ requests[w].status = "OK"
        /\ Len(requests[w].result.reserved_seats) >= 1
        /\ Len(requests[w].result.available_seats) >= 1
        /\ \E i \in DOMAIN reservations : reservations[i].session_id = requests[w].id

\* C3: no two stored reservations have the same (session_id, seat).
C3_SeatReservedOnce ==
    \A i, j \in DOMAIN reservations :
        i # j => \/ reservations[i].session_id # reservations[j].session_id
                 \/ reservations[i].seat # reservations[j].seat

\* A reservation of a seat that a stored reservation holds was refused.
C3_Witness ==
    \E w \in Workers :
        /\ Answered(w, "create_reservation")
        /\ requests[w].status = "InternalError"
        /\ \E i \in DOMAIN reservations :
              /\ reservations[i].session_id = requests[w].body.session_id
              /\ reservations[i].seat = requests[w].body.seat

\* C4: create_session with a movie_id that matches no Movie, or a room_id that
\* matches no Room, answers MovieOrRoomNotFound (the code's ReferenceNotFound)
\* and leaves the movie_sessions table as it was.
C4_CreateSessionMissingParent ==
    [][\A w \in Workers :
          (/\ Handled(w, "create_session")
           /\ \/ Val(requests[w].body.movie_id) \notin DOMAIN movies
              \/ Val(requests[w].body.room_id) \notin DOMAIN rooms)
          => /\ requests'[w].status = "MovieOrRoomNotFound"
             /\ movie_sessions' = movie_sessions]_vars

\* create_session was refused for a stored movie and a room that is not stored.
C4_Witness ==
    \E w \in Workers :
        /\ Answered(w, "create_session")
        /\ requests[w].status = "MovieOrRoomNotFound"
        /\ Val(requests[w].body.movie_id) \in DOMAIN movies
        /\ Val(requests[w].body.room_id) \notin DOMAIN rooms

\* C5: every stored MovieSession's movie_id is the id of a stored Movie and its
\* room_id is the id of a stored Room.
C5_SessionsReferenceParents ==
    \A s \in DOMAIN movie_sessions :
        /\ \E m \in DOMAIN movies : movie_sessions[s].movie_id = {m}
        /\ \E r \in DOMAIN rooms : movie_sessions[s].room_id = {r}

\* C6: create_reservation with a session_id that matches no MovieSession
\* answers MovieSessionNotFound (the code's ReferenceNotFound) and leaves the
\* reservations table as it was.
C6_CreateReservationMissingSession ==
    [][\A w \in Workers :
          (/\ Running(w, "create_reservation")
           /\ requests'[w] # requests[w]
           /\ Val(requests[w].body.session_id) \notin DOMAIN movie_sessions)
          => /\ requests'[w].pc = "answered"
             /\ requests'[w].status = "MovieSessionNotFound"
             /\ reservations' = reservations]_vars

\* create_reservation was refused for a session that is not stored.
C6_Witness ==
    \E w \in Workers :
        /\ Answered(w, "create_reservation")
        /\ requests[w].status = "MovieSessionNotFound"
        /\ Val(requests[w].body.session_id) \notin DOMAIN movie_sessions

\* C7: update_reservation that sets a session_id matching no MovieSession
\* answers MovieSessionNotFound and leaves the reservation as it was.
C7_UpdateReservationMissingSession ==
    [][\A w \in Workers :
          (/\ Handled(w, "update_reservation")
           /\ Val(requests[w].id) \in DOMAIN reservations
           /\ "session_id" \in DOMAIN requests[w].body
           /\ requests[w].body.session_id # NULL
           /\ Val(requests[w].body.session_id) \notin DOMAIN movie_sessions)
          => /\ requests'[w].status = "MovieSessionNotFound"
             /\ reservations'[Val(requests[w].id)] = reservations[Val(requests[w].id)]]_vars

\* C8: update_session of a stored session with a movie_id that matches no
\* Movie, or a room_id that matches no Room, answers MovieOrRoomNotFound and
\* leaves the movie_sessions table as it was.
C8_UpdateSessionMissingParent ==
    [][\A w \in Workers :
          (/\ Handled(w, "update_session")
           /\ Val(requests[w].id) \in DOMAIN movie_sessions
           /\ \/ /\ "movie_id" \in DOMAIN requests[w].body
                 /\ \A m \in DOMAIN movies : requests[w].body.movie_id # {m}
              \/ /\ "room_id" \in DOMAIN requests[w].body
                 /\ \A r \in DOMAIN rooms : requests[w].body.room_id # {r})
          => /\ requests'[w].status = "MovieOrRoomNotFound"
             /\ movie_sessions' = movie_sessions]_vars

\* update_session was refused for a room that is not stored, in a request
\* that also sets a stored movie and a start time.
C8_Witness ==
    \E w \in Workers :
        /\ Answered(w, "update_session")
        /\ requests[w].status = "MovieOrRoomNotFound"
        /\ DOMAIN requests[w].body = {"start_time", "movie_id", "room_id"}
        /\ requests[w].body.start_time # NULL
        /\ \E m \in DOMAIN movies : requests[w].body.movie_id = {m}
        /\ requests[w].body.room_id = {2}

\* The rows of `after` are those of `before`, but for the fields of row i that
\* the request body sets.
OnlySupplied(before, after, i, patch) ==
    /\ DOMAIN after = DOMAIN before
    /\ \A j \in DOMAIN before :
          \A f \in DOMAIN before[j] :
              (j # i \/ f \notin DOMAIN patch) => after[j][f] = before[j][f]

\* C9: an update that answers NoContent changes no field but those its body
\* sets, of no row but its target, in no table but its own; with an empty
\* body it changes nothing.
C9_UpdateChangesOnlySupplied ==
    [][\A w \in Workers :
          (requests[w].pc = "received" /\ requests'[w].pc = "answered"
           /\ requests'[w].status = "NoContent")
          => LET op == requests[w].op
                 i == Val(requests[w].id)
                 patch == requests[w].body
             IN /\ IF op = "update_room" THEN OnlySupplied(rooms, rooms', i, patch)
                                         ELSE rooms' = rooms
                /\ IF op = "update_movie" THEN OnlySupplied(movies, movies', i, patch)
                                          ELSE movies' = movies
                /\ IF op = "update_session"
                   THEN OnlySupplied(movie_sessions, movie_sessions', i, patch)
                   ELSE movie_sessions' = movie_sessions
                /\ IF op = "update_reservation"
                   THEN OnlySupplied(reservations, reservations', i, patch)
                   ELSE reservations' = reservations
                /\ DOMAIN patch = {} => store' = store]_vars

\* An update of the contact alone of a reservation was stored.
C9_Witness ==
    \E w \in Workers :
        /\ Answered(w, "update_reservation")
        /\ requests[w].status = "NoContent"
        /\ DOMAIN requests[w].body = {"contact"}
        /\ reservations[Val(requests[w].id)].contact = {"other@gmail.com"}

\* The table a delete route works on.
Deleted(op) ==
    CASE op = "delete_room" -> DOMAIN rooms
      [] op = "delete_movie" -> DOMAIN movies
      [] op = "delete_session" -> DOMAIN movie_sessions
      [] op = "delete_reservation" -> DOMAIN reservations

\* C10: a delete of an id that matches no row of its table answers NotFound
\* and leaves the four tables as they were.
C10_DeleteMissing ==
    [][\A w \in Workers :
          (/\ requests[w].pc = "received" /\ requests'[w].pc = "answered"
           /\ requests[w].op \in {"delete_room", "delete_movie", "delete_session",
                                  "delete_reservation"}
           /\ Val(requests[w].id) \notin Deleted(requests[w].op))
          => /\ requests'[w].status = "NotFound"
             /\ store' = store]_vars

\* A delete of a session that is not stored was refused while reservations
\* were stored.
C10_Witness ==
    \E w \in Workers :
        /\ Answered(w, "delete_session")
        /\ requests[w].status = "NotFound"
        /\ Val(requests[w].id) \notin DOMAIN movie_sessions
        /\ DOMAIN reservations # {}

\* C11: create_room with the name of a stored Room, and create_movie with the
\* name of a stored Movie, answers DuplicateName and stores no row, so that no
\* two Rooms and no two Movies ever share a name.
C11_CreateDuplicateName ==
    [][\A w \in Workers :
          /\ (/\ Handled(w, "create_room")
              /\ \E i \in DOMAIN rooms : rooms[i].name = requests[w].body.name)
             => (requests'[w].status = "DuplicateName" /\ rooms' = rooms)
          /\ (/\ Handled(w, "create_movie")
              /\ \E i \in DOMAIN movies : movies[i].name = requests[w].body.name)
             => (requests'[w].status = "DuplicateName" /\ movies' = movies)
          /\ \A i, j \in DOMAIN rooms' : i # j => rooms'[i].name # rooms'[j].name
          /\ \A i, j \in DOMAIN movies' : i # j => movies'[i].name # movies'[j].name]_vars

\* C12: sessions_filtered_by with both movie_id and room_id given answers with
\* exactly the stored sessions of that movie in that room: the sessions that
\* are in both the result for the movie_id alone and the result for the
\* room_id alone.
C12_FilterByBothIsIntersection ==
    \A w \in Workers :
        (/\ Answered(w, "sessions_filtered_by")
         /\ requests[w].body.movie_id # NULL
         /\ requests[w].body.room_id # NULL)
        => /\ requests[w].status = "OK"
           /\ Range(requests[w].result) =
                  {i \in DOMAIN movie_sessions :
                      /\ movie_sessions[i].movie_id = requests[w].body.movie_id
                      /\ movie_sessions[i].room_id = requests[w].body.room_id}

\* C13: sessions_filtered_by answers WrongParameters (the code's
\* MissingParameter, HTTP 400) when neither movie_id nor room_id is given, and
\* only then.
C13_FilterNeedsAParameter ==
    \A w \in Workers :
        Answered(w, "sessions_filtered_by")
        => (requests[w].status = "WrongParameters"
            <=> (requests[w].body.movie_id = NULL /\ requests[w].body.room_id = NULL))

\* C14: sessions_filtered_by with both ids given never lists a session whose
\* start_time is not after the current time and always lists the sessions of
\* that movie in that room that start after it, while all_sessions lists every
\* stored session.
C14_FilterByBothIsUpcoming ==
    [][\A w \in Workers :
          /\ (/\ Handled(w, "sessions_filtered_by")
              /\ requests[w].body.movie_id # NULL
              /\ requests[w].body.room_id # NULL)
             => \A i \in DOMAIN movie_sessions :
                   /\ Val(movie_sessions[i].start_time) <= now
                      => i \notin Range(requests'[w].result)
                   /\ (/\ Val(movie_sessions[i].start_time) > now
                       /\ movie_sessions[i].movie_id = requests[w].body.movie_id
                       /\ movie_sessions[i].room_id = requests[w].body.room_id)
                      => i \in Range(requests'[w].result)
          /\ Handled(w, "all_sessions")
             => Range(requests'[w].result) = DOMAIN movie_sessions]_vars

\* The routes that create, update or delete a row.
Mutating ==
    {"create_room", "update_room", "delete_room",
     "create_movie", "update_movie", "delete_movie",
     "create_session", "update_session", "delete_session",
     "create_reservation", "update_reservation", "delete_reservation"}

\* C15: a create, update or delete of a Room, Movie, MovieSession or
\* Reservation sent without the token of an admin (none, or an invalid one) is
\* answered AuthenticationFailed, its handler never runs, and the four tables
\* stay as they were.
C15_WritesNeedAnAdmin ==
    [][\A w \in Workers :
          /\ (requests'[w].op \in Mutating /\ requests'[w].token # "valid")
             => /\ requests'[w].pc = "answered"
                /\ requests'[w].status = "AuthenticationFailed"
          /\ (/\ requests'[w] # requests[w]
              /\ \/ requests'[w].op \in Mutating /\ requests'[w].token # "valid"
                 \/ requests[w].op \in Mutating /\ requests[w].token # "valid")
             => store' = store]_vars

\* delete_room of a stored room was refused for want of a token.
C15_Witness ==
    \E w \in Workers :
        /\ Answered(w, "delete_room")
        /\ requests[w].token = "none"
        /\ requests[w].status = "AuthenticationFailed"
        /\ \E r \in DOMAIN rooms : requests[w].id = {r}

\* The parents, by the foreign key fk, of the stored sessions that start after
\* the current time.
WithUpcomingSession(parents, fk) ==
    {p \in DOMAIN parents :
        \E i \in DOMAIN movie_sessions :
            movie_sessions[i][fk] = {p} /\ Val(movie_sessions[i].start_time) > now}

\* C16: rooms_with_sessions answers with exactly the Rooms, and
\* movies_with_sessions with exactly the Movies, that have a session starting
\* after the current time, each of them once.
C16_AvailableParents ==
    [][\A w \in Workers :
          /\ Handled(w, "rooms_with_sessions")
             => /\ Range(requests'[w].result) = WithUpcomingSession(rooms, "room_id")
                /\ Len(requests'[w].result) = Cardinality(Range(requests'[w].result))
          /\ Handled(w, "movies_with_sessions")
             => /\ Range(requests'[w].result) = WithUpcomingSession(movies, "movie_id")
                /\ Len(requests'[w].result) = Cardinality(Range(requests'[w].result))]_vars

\* C17: every stored Room has a seat count that is a positive integer.
C17_SeatsPositive ==
    \A r \in DOMAIN rooms : rooms[r].seats # NULL /\ Val(rooms[r].seats) > 0

\* C18: get_session_by_id of the id of a stored MovieSession answers OK with
\* reserved_seats and available_seats, and of any other id NotFound: it never
\* ends in an internal error.
C18_SessionByIdAnswers ==
    [][\A w \in Workers :
          Handled(w, "get_session_by_id")
          => IF \E s \in DOMAIN movie_sessions : requests[w].id = {s}
             THEN /\ requests'[w].status = "OK"
                  /\ DOMAIN requests'[w].result = {"reserved_seats", "available_seats"}
             ELSE requests'[w].status = "NotFound"]_vars

====
